---- MODULE Spec2Model ----
(***************************************************************************)
(* The review orchestration pipeline of lucai (lib/reviewer.js):           *)
(* performReview, countTokens, splitCodeIntoChunks, cleanJsonString, the   *)
(* per-chunk line adjustment, the chunk aggregation and the cross-file     *)
(* aggregation; and the review command of the CLI (bin/lucai.js) that      *)
(* merges the options, calls performReview and prints or saves the report. *)
(*                                                                         *)
(* Text is a sequence of lines (the pieces between '\n'); a line is the    *)
(* number of tokens its own characters encode to, so the empty line is 0.  *)
(* A '\n' encodes to one token.  Reals that the code compares against      *)
(* (maxTokens * 0.9) are kept in tenths of a token.                        *)
(***************************************************************************)
EXTENDS Integers, Sequences, FiniteSets, TLC

VARIABLES
  files,            \* performReview argument: sequence of {path, content, diff}
  model,            \* performReview argument
  isSingleFile,     \* performReview argument
  isDiffReview,     \* performReview argument
  hasApiKey,        \* whether getApiKey(provider) returns a non-empty key
  responseStyles,   \* the ways the provider may wrap a JSON object it answers with
  pc,               \* the await performReview or splitCodeIntoChunks is suspended at
  index,            \* 1-based position of the file being processed (code: index + 1)
  systemPrompt,     \* prompt chosen before the loop
  chunks,           \* chunks of the current large file
  maxTokensPerChunk,  \* splitCodeIntoChunks argument, in tenths of a token
  splitIndex,       \* splitCodeIntoChunks: 1-based position of the line of the iteration (code: i + 1)
  currentChunkLines,  \* splitCodeIntoChunks: lines of the chunk being filled
  currentChunkTokens, \* splitCodeIntoChunks: running token estimate of that chunk
  chunkIndex,       \* 1-based position of the chunk being reviewed
  chunkReviews,     \* results pushed for the current large file
  reviewResults,    \* the FileReviews pushed so far
  reviewSource,     \* history: for each FileReview, the position of its SourceFile
  progress,         \* history: the <<completed, total>> pairs onProgress was called with
  tokenCounts,      \* history: number of countTokens calls issued
  invocations,      \* history: number of review calls issued to the provider
  summaryCalls,     \* history: number of generateOverallSummary calls issued
  callLog,          \* history: every review call answered so far, with what was sent
  aggregatedResult, \* the value performReview resolves with
  cliPc,            \* reviewAction: the await it is suspended at ("none": no CLI run)
  flags,            \* lucai review: the flags given on the command line
  projectConfig,    \* the object loadProjectConfig returns
  configProvider,   \* getConfig().provider
  reviewResult,     \* reviewAction: the variable reviewResult
  stdout,           \* what console.log has printed
  outputFile,       \* content of the file named by --output-file
  spinner           \* the last state the spinner was left in

inputs == <<files, model, isSingleFile, isDiffReview, hasApiKey, responseStyles>>
vars == <<files, model, isSingleFile, isDiffReview, hasApiKey, responseStyles, pc, index,
          systemPrompt, chunks, maxTokensPerChunk, splitIndex, currentChunkLines,
          currentChunkTokens, chunkIndex, chunkReviews, reviewResults, reviewSource, progress,
          tokenCounts, invocations, summaryCalls, callLog, aggregatedResult,
          cliPc, flags, projectConfig, configProvider, reviewResult, stdout,
          outputFile, spinner>>
cli == <<cliPc, flags, projectConfig, configProvider, reviewResult, outputFile, spinner>>
splitter == <<maxTokensPerChunk, splitIndex, currentChunkLines, currentChunkTokens>>

(***************************************************************************)
(* Bounds of the model.                                                    *)
(***************************************************************************)
MaxFiles == 2
LongLen == 90
MaxSplitLen == 4

(***************************************************************************)
(* Program constants.                                                      *)
(***************************************************************************)
overlapLines == 50
DefaultContextWindow == 2048

CONTEXT_WINDOWS ==
  ("gpt-4o" :> 128000) @@ ("gpt-4-turbo" :> 128000) @@ ("gpt-4" :> 8192) @@
  ("gemini-1.5-pro-latest" :> 1048576) @@ ("gemini-1.0-pro" :> 30720)

Undefined == "undefined"
EmptyObject == [k \in {} |-> 0]

\* a variable or a file that holds nothing yet
Nothing == [nothing |-> TRUE]

\* model.startsWith('gemini') ? 'google' : 'openai'
ProviderOf(m) ==
  IF Len(m) >= 6 /\ SubSeq(m, 1, 6) = "gemini" THEN "google" ELSE "openai"

\* CONTEXT_WINDOWS[model] || 2048
MaxTokensOf(m) ==
  IF m \in DOMAIN CONTEXT_WINDOWS THEN CONTEXT_WINDOWS[m] ELSE DefaultContextWindow

\* maxTokens * 0.9, in tenths of a token
ChunkBudget10(m) == MaxTokensOf(m) * 9

RECURSIVE SumSeq(_)
SumSeq(s) == IF s = <<>> THEN 0 ELSE Head(s) + SumSeq(Tail(s))

\* countTokens(text, model) when the count succeeds: every line's own tokens
\* and one token per '\n' between lines.
CountTokens(text) == IF text = <<>> THEN 0 ELSE SumSeq(text) + (Len(text) - 1)

\* countTokens(line + '\n', model): the text line + '\n' has the lines <<line, ''>>
LineTokens(line) == CountTokens(<<line, 0>>)

\* mutant of Exceeds: an estimate equal to the threshold counts as large
Exceeds_OrEqual(tokens, budget10) == tokens * 10 >= budget10

\* totalTokens > maxTokens * 0.9
Exceeds(tokens, budget10) == tokens * 10 > budget10

\* mutant of OverlapOf: one line fewer than overlapLines is kept
OverlapOf_OneShort(cur) ==
  LET overlapStartIndex == IF Len(cur) - (overlapLines - 1) > 0
                           THEN Len(cur) - (overlapLines - 1) ELSE 0
  IN  SubSeq(cur, overlapStartIndex + 1, Len(cur))

\* currentChunkLines.slice(Math.max(0, currentChunkLines.length - overlapLines))
OverlapOf(cur) ==
  LET overlapStartIndex == IF Len(cur) - overlapLines > 0 THEN Len(cur) - overlapLines ELSE 0
  IN  SubSeq(cur, overlapStartIndex + 1, Len(cur))

\* mutant of ClosedStartLine: the 0-based loop index taken for a 1-based one
ClosedStartLine_OneBased(i, cur) == i - Len(cur) + 1

\* startLine of the chunk closed before the line at 1-based position i is added
\* (code: i - currentChunkLines.length + 1 with the 0-based i, that is (i - 1))
ClosedStartLine(i, cur) == (i - 1) - Len(cur) + 1

\* startLine of the final chunk (code: lines.length - currentChunkLines.length + 1)
FinalStartLine(lines, cur) == Len(lines) - Len(cur) + 1

\* the chunk pushed at lines 182-185 or 199-202
MakeChunk(lines, startLine) == [content |-> lines, startLine |-> startLine]

\* mutant of ClosesChunk: a chunk is closed even when it holds no line yet
ClosesChunk_AlsoEmpty(cur, curTokens, lineTokens, budget10) ==
  Exceeds(curTokens + lineTokens, budget10)

\* currentChunkTokens + lineTokens > maxTokensPerChunk && currentChunkLines.length > 0
ClosesChunk(cur, curTokens, lineTokens, budget10) ==
  Exceeds(curTokens + lineTokens, budget10) /\ Len(cur) > 0

(***************************************************************************)
(* What the provider answers to one review call.  A call either throws, or *)
(* returns text JSON.parse rejects, or returns text that parses to an      *)
(* object.  The reviewer simulated here quotes, in every finding, what the *)
(* prompt told it: the file's path, the chunk it was shown (0 for a whole  *)
(* file), the line of the shown text it speaks about and that line's text, *)
(* so that a finding can be traced.                                        *)
(***************************************************************************)
ArrayKeys == {"dangers", "issues", "suggestions", "good_practices", "fix"}

Item(path, c, text, L) ==
  [line |-> L,
   description |-> [file |-> path, chunk |-> c, rel |-> L, text |-> text[L]]]

\* an entry of "fix" as the prompt asks for it: line, explanation and code
FixItem(path, c, text, L) ==
  [line |-> L,
   explanation |-> [file |-> path, chunk |-> c, rel |-> L, text |-> text[L]],
   code |-> "corrected code"]

\* an entry of "fix" the provider gave no code for
FixItemWithoutCode(path, c, text, L) ==
  [line |-> L,
   explanation |-> [file |-> path, chunk |-> c, rel |-> L, text |-> text[L]]]

\* The raw text of an answer is a sequence of segments: a JSON object, prose
\* without braces, the opening fence (three backticks and json) with the
\* whitespace after it, the closing fence (three backticks) with the whitespace
\* before it.
JsonSeg(o) == [seg |-> "json", value |-> o]
ProseSeg == [seg |-> "prose"]
FenceOpen == [seg |-> "fence_open"]
FenceClose == [seg |-> "fence_close"]

WrapStyles == {"fenced", "prose_fenced", "trailing_prose"}

\* the text a provider produces when it wraps the object o in the given style
Wrap(style, o) ==
  IF style = "fenced" THEN <<FenceOpen, JsonSeg(o), FenceClose>>
  ELSE IF style = "prose_fenced" THEN <<ProseSeg, FenceOpen, JsonSeg(o), FenceClose>>
  ELSE <<JsonSeg(o), ProseSeg>>

\* cleanJsonString: an opening fence at the very start and a closing fence at
\* the very end are removed, then the text is trimmed
CleanJsonString(text) ==
  LET a == IF text # <<>> /\ Head(text) = FenceOpen THEN Tail(text) ELSE text
  IN  IF a # <<>> /\ a[Len(a)] = FenceClose THEN SubSeq(a, 1, Len(a) - 1) ELSE a

\* JSON.parse(text) returns: the text is one JSON object and nothing else
JsonParses(text) == Len(text) = 1 /\ text[1].seg = "json"

\* the object the provider was told to answer with
CompliantObject(path, c, text) ==
  [issues |-> <<Item(path, c, text, 1)>>, fix |-> <<FixItem(path, c, text, Len(text))>>,
   score |-> 85, summary |-> "Looks fine."]

ModelObjects(path, c, text) ==
  LET n == Len(text)
      mid == (n + 1) \div 2
  IN  { CompliantObject(path, c, text),
        [dangers |-> <<Item(path, c, text, n)>>, issues |-> <<Item(path, c, text, 1)>>,
         fix |-> <<FixItemWithoutCode(path, c, text, 1)>>, score |-> 150],
        [good_practices |-> <<Item(path, c, text, 1)>>,
         suggestions |-> <<Item(path, c, text, mid)>>,
         score |-> 40, summary |-> "Needs work.", path |-> "other.js",
         diff |-> "diff made up by the model"] }

Responses(path, c, text) ==
  {[kind |-> "throw"], [kind |-> "badjson"]} \cup
  {[kind |-> "json", value |-> o] : o \in ModelObjects(path, c, text)} \cup
  {[kind |-> "wrapped", text |-> Wrap(st, CompliantObject(path, c, text))] :
     st \in responseStyles}

\* the raw text of an answer
TextOf(resp) ==
  IF resp.kind = "json" THEN <<JsonSeg(resp.value)>>
  ELSE IF resp.kind = "wrapped" THEN resp.text
  ELSE <<ProseSeg>>

\* JSON.parse(cleanJsonString(textResponse)) for google (lines 271, 326),
\* JSON.parse(response.choices[0].message.content) for openai (lines 283, 341):
\* the answer as the parse sees it
Received(provider, resp) ==
  LET text == IF provider = "google" THEN CleanJsonString(TextOf(resp)) ELSE TextOf(resp)
  IN  IF JsonParses(text) THEN [kind |-> "json", value |-> text[1].value]
      ELSE [kind |-> "badjson"]

\* mutant of ParseOrEmpty: the parse error is kept in the result
ParseOrEmpty_KeepsError(resp) ==
  IF resp.kind = "json" THEN resp.value ELSE [error |-> "Failed to parse JSON"]

\* try { result = JSON.parse(...) } catch (e) { result = {} }
ParseOrEmpty(resp) == IF resp.kind = "json" THEN resp.value ELSE EmptyObject

\* { ...a, ...b }
Merge(a, b) ==
  [k \in (DOMAIN a) \cup (DOMAIN b) |-> IF k \in DOMAIN b THEN b[k] ELSE a[k]]

\* if (item.line) item.line = item.line + chunk.startLine - 1
AdjustItem(item, startLine) ==
  IF item.line # 0 THEN [item EXCEPT !.line = item.line + startLine - 1] ELSE item

\* Object.keys(result).forEach(key => { if (Array.isArray(result[key])) ... })
AdjustLines(result, startLine) ==
  [k \in DOMAIN result |->
     IF k \in ArrayKeys
     THEN [j \in 1..Len(result[k]) |-> AdjustItem(result[k][j], startLine)]
     ELSE result[k]]

\* mutant of RoundDiv: Math.floor in place of Math.round
RoundDiv_Floor(total, n) == total \div n

\* Math.round(total / n) for n > 0: floor(total / n + 1/2)
RoundDiv(total, n) == (2 * total + n) \div (2 * n)

\* r.score || 0
ScoreOf(r) == IF "score" \in DOMAIN r THEN r.score ELSE 0

RECURSIVE SumScores(_)
SumScores(rs) == IF rs = <<>> THEN 0 ELSE ScoreOf(Head(rs)) + SumScores(Tail(rs))

\* mutant of ConcatField: the arrays of later chunks come first
RECURSIVE ConcatField_Reversed(_, _)
ConcatField_Reversed(rs, key) ==
  IF rs = <<>> THEN <<>>
  ELSE ConcatField_Reversed(Tail(rs), key)
       \o (IF key \in DOMAIN Head(rs) THEN Head(rs)[key] ELSE <<>>)

\* [].concat(...chunkReviews.map(r => r[key] || []))
RECURSIVE ConcatField(_, _)
ConcatField(rs, key) ==
  IF rs = <<>> THEN <<>>
  ELSE (IF key \in DOMAIN Head(rs) THEN Head(rs)[key] ELSE <<>>) \o ConcatField(Tail(rs), key)

\* `Chunk ${i + 1}: ${r.summary}`
ChunkSummaryLine(r, i) ==
  "Chunk " \o ToString(i) \o ": " \o (IF "summary" \in DOMAIN r THEN r.summary ELSE Undefined)

\* chunkReviews.map(...).join('\n'), from the 1-based position i on
RECURSIVE JoinSummaries(_, _)
JoinSummaries(rs, i) ==
  IF i > Len(rs) THEN ""
  ELSE IF i = Len(rs) THEN ChunkSummaryLine(rs[i], i)
  ELSE ChunkSummaryLine(rs[i], i) \o "\n" \o JoinSummaries(rs, i + 1)

\* mutant of AggregateScore: the sum is not divided by the number of chunks
AggregateScore_Sum(rs) == SumScores(rs)

\* mutant of AggregateScore: the mean is taken over the chunk results that
\* carry a score only
AggregateScore_ScoredOnly(rs) ==
  IF SelectSeq(rs, LAMBDA r : "score" \in DOMAIN r) = <<>> THEN 0
  ELSE RoundDiv(SumScores(rs), Len(SelectSeq(rs, LAMBDA r : "score" \in DOMAIN r)))

\* Math.round(sum / chunkReviews.length) || 0
AggregateScore(rs) == IF Len(rs) = 0 THEN 0 ELSE RoundDiv(SumScores(rs), Len(rs))

\* chunkReviews.map(...).join('\n') || "Review completed for large file."
AggregateSummary(rs) ==
  IF JoinSummaries(rs, 1) = "" THEN "Review completed for large file." ELSE JoinSummaries(rs, 1)

\* const aggregated = { dangers: ..., ..., score: ..., summary: ... }
Aggregate(rs) ==
  [dangers |-> ConcatField(rs, "dangers"),
   issues |-> ConcatField(rs, "issues"),
   suggestions |-> ConcatField(rs, "suggestions"),
   good_practices |-> ConcatField(rs, "good_practices"),
   fix |-> ConcatField(rs, "fix"),
   score |-> AggregateScore(rs),
   summary |-> AggregateSummary(rs)]

\* mutant of MakeFileReview: diff is set before the result is spread
MakeFileReview_DiffFirst(file, result) ==
  Merge(Merge([path |-> file.path], [diff |-> file.diff]), result)

\* { path: file.path, ...result, diff: file.diff }
MakeFileReview(file, result) ==
  Merge(Merge([path |-> file.path], result), [diff |-> file.diff])

\* mutant of SelectPrompt: isSingleFile is looked at before isDiffReview
SelectPrompt_SingleFirst(diff, single) ==
  IF single THEN "single" ELSE IF diff THEN "diff" ELSE "standard"

\* the prompt chosen before the loop
SelectPrompt(diff, single) ==
  IF diff THEN "diff" ELSE IF single THEN "single" ELSE "standard"

\* Math.round(totalScore / reviewResults.length)
OverallScore(rr) == RoundDiv(SumScores(rr), Len(rr))

\* mutant of FinalResult: isSingleFile is not looked at
FinalResult_IgnoresSingle(rr, single) ==
  [files |-> rr, summary |-> "Overall review summary across all files.",
   score |-> IF Len(rr) > 0 THEN OverallScore(rr) ELSE 0]

\* aggregatedResult as it stands when generateOverallSummary is awaited or,
\* without that call, when performReview returns
FinalResult(rr, single) ==
  IF single THEN [files |-> rr]
  ELSE IF Len(rr) > 0
       THEN [files |-> rr, summary |-> "Overall review summary across all files.",
             score |-> OverallScore(rr)]
       ELSE [files |-> rr, summary |-> "Overall review summary across all files.",
             score |-> 0]

\* mutant of NeedsSummary: the summary is asked for without any FileReview
NeedsSummary_IgnoresEmpty(rr, single) == ~single

\* the else-if branch that awaits generateOverallSummary
NeedsSummary(rr, single) == ~single /\ Len(rr) > 0

(***************************************************************************)
(* Inputs.                                                                 *)
(***************************************************************************)
Models == {"gpt-4", "gpt-3.5-turbo", "gemini-pro"}

SmallContent == <<10>>
MidContent == <<900, 900, 600>>
LongContent == [i \in 1..LongLen |-> 27 + (i % 3)]

PathOf(i) == "file" \o ToString(i) \o ".js"
DiffOf(i, diff) == IF diff THEN "diff of " \o PathOf(i) ELSE Undefined

\* the SourceFiles the file discovery hands over for the contents cs
SourceFiles(cs, diff) ==
  [i \in 1..Len(cs) |-> [path |-> PathOf(i), content |-> cs[i], diff |-> DiffOf(i, diff)]]

ContentLists == UNION {[1..n -> {SmallContent, MidContent}] : n \in 0..MaxFiles}

LongContentLists ==
  {<<LongContent>>, <<SmallContent, LongContent>>, <<LongContent, SmallContent>>}

\* performReview is called on its own, not by reviewAction
CliIdle ==
  /\ cliPc = "none"
  /\ flags = EmptyObject
  /\ projectConfig = EmptyObject
  /\ configProvider = "openai"
  /\ reviewResult = Nothing
  /\ stdout = <<>>
  /\ outputFile = Nothing
  /\ spinner = Nothing

InitWith(lists, models, diffs) ==
  /\ CliIdle
  /\ model \in models
  /\ isSingleFile \in BOOLEAN
  /\ isDiffReview \in diffs
  /\ hasApiKey \in BOOLEAN
  /\ \E cs \in lists : files = SourceFiles(cs, isDiffReview)
  /\ pc = "start"
  /\ index = 0
  /\ systemPrompt = Undefined
  /\ chunks = <<>>
  /\ maxTokensPerChunk = 0
  /\ splitIndex = 0
  /\ currentChunkLines = <<>>
  /\ currentChunkTokens = 0
  /\ chunkIndex = 0
  /\ chunkReviews = <<>>
  /\ reviewResults = <<>>
  /\ reviewSource = <<>>
  /\ progress = <<>>
  /\ tokenCounts = 0
  /\ invocations = 0
  /\ summaryCalls = 0
  /\ callLog = <<>>
  /\ aggregatedResult = Undefined

Init == InitWith(ContentLists, Models, BOOLEAN) /\ responseStyles = {}

LongInit ==
  InitWith(LongContentLists, {"gpt-3.5-turbo", "gemini-pro"}, {FALSE}) /\ responseStyles = {}

\* one file, small or large, reviewed by a provider that wraps its JSON
WrapContentLists == {<<SmallContent>>, <<MidContent>>}

WrapInit == InitWith(WrapContentLists, Models, {FALSE}) /\ responseStyles = WrapStyles

(***************************************************************************)
(* Files whose token estimate is the largest one not above 90% of a        *)
(* context window, or the smallest one above it.  For the windows 128000   *)
(* and 30720 the threshold is a whole number (115200 and 27648) and the    *)
(* first of the two estimates equals it.                                   *)
(***************************************************************************)
ThresholdModels == {"gpt-4o", "gemini-1.0-pro", "gpt-4", "gpt-3.5-turbo"}

AroundThreshold(m) ==
  LET t == ChunkBudget10(m) \div 10
  IN  {<<t>>, <<t + 1>>, <<t - 11, 10>>, <<t - 10, 10>>}

ThresholdContentLists ==
  LET cs == UNION {AroundThreshold(m) : m \in ThresholdModels}
  IN  {<<c>> : c \in cs} \cup {<<SmallContent, c>> : c \in AroundThreshold("gpt-4o")}

ThresholdInit ==
  InitWith(ThresholdContentLists, ThresholdModels, {FALSE}) /\ responseStyles = {}

(***************************************************************************)
(* Inputs of splitCodeIntoChunks called on its own: any content, any       *)
(* maxTokensPerChunk.  A line of 12 tokens is larger than either small     *)
(* budget (10 and 4.5 tokens).                                             *)
(* The initial state is the first suspension of the split: the countTokens *)
(* of the first line has been issued (line 179).                           *)
(***************************************************************************)
SplitLineSizes == {0, 3, 12}
SplitBudgets == {100, 45}
ShortContents == UNION {[1..n -> SplitLineSizes] : n \in 1..MaxSplitLen}

SplitInputs ==
  (ShortContents \X SplitBudgets) \cup {<<LongContent, ChunkBudget10("gpt-3.5-turbo")>>}

SplitInit ==
  /\ CliIdle
  /\ model \in {"gpt-3.5-turbo", "gemini-pro"}
  /\ isSingleFile = FALSE
  /\ isDiffReview = FALSE
  /\ hasApiKey = TRUE
  /\ responseStyles = {}
  /\ \E inp \in SplitInputs :
        /\ files = SourceFiles(<<inp[1]>>, FALSE)
        /\ maxTokensPerChunk = inp[2]
  /\ pc = "splitting"
  /\ index = 1
  /\ systemPrompt = SelectPrompt(FALSE, FALSE)
  /\ chunks = <<>>
  /\ splitIndex = 1
  /\ currentChunkLines = <<>>
  /\ currentChunkTokens = 0
  /\ chunkIndex = 0
  /\ chunkReviews = <<>>
  /\ reviewResults = <<>>
  /\ reviewSource = <<>>
  /\ progress = <<>>
  /\ tokenCounts = 1
  /\ invocations = 0
  /\ summaryCalls = 0
  /\ callLog = <<>>
  /\ aggregatedResult = Undefined

(***************************************************************************)
(* performReview, one action per stretch of code between two awaits.       *)
(***************************************************************************)

\* lines 356-371 up to the await of generateOverallSummary or the return
AfterLoop(rr) ==
  /\ aggregatedResult' = FinalResult(rr, isSingleFile)
  /\ IF NeedsSummary(rr, isSingleFile)
     THEN pc' = "summarizing" /\ summaryCalls' = summaryCalls + 1
     ELSE pc' = "done" /\ UNCHANGED summaryCalls

\* line 353 and the loop header: onProgress, then the next file's countTokens
\* or the code after the loop
NextFile(rr, rs) ==
  /\ reviewResults' = rr
  /\ reviewSource' = rs
  /\ progress' = Append(progress, <<index, Len(files)>>)
  /\ IF index < Len(files)
     THEN /\ index' = index + 1
          /\ pc' = "counting"
          /\ tokenCounts' = tokenCounts + 1
          /\ UNCHANGED <<aggregatedResult, summaryCalls>>
     ELSE /\ AfterLoop(rr)
          /\ UNCHANGED <<index, tokenCounts>>

\* mutant of KeyMissing: the key is never found missing
KeyMissing_Never(key) == FALSE

\* mutant of Push: unshift in place of push
Push_Front(array, x) == <<x>> \o array

\* if (!apiKey)
KeyMissing(key) == ~key

\* array.push(x)
Push(array, x) == Append(array, x)

\* console.log of line 262: "  - Reviewing chunk k/n..."
ReviewingChunk(k, n) == [kind |-> "reviewing_chunk", chunk |-> k, of |-> n]

\* what the log keeps of one answered review call
LogEntry(chunk, startLine, content, resp) ==
  [file |-> index, chunk |-> chunk, startLine |-> startLine, content |-> content,
   resp |-> resp]

\* performReview has been called: directly, or by reviewAction (lucai.js:117)
Called == cliPc \in {"none", "reviewing"}

\* lines 225-229: no key for the provider
PreflightReject ==
  /\ pc = "start"
  /\ Called
  /\ KeyMissing(hasApiKey)
  /\ pc' = "rejected"
  /\ UNCHANGED <<callLog, inputs, cli, stdout, index, systemPrompt, chunks, splitter, chunkIndex, chunkReviews,
                 reviewResults, reviewSource, progress, tokenCounts, invocations,
                 summaryCalls, aggregatedResult>>

\* lines 225-253: key found, client and prompt set up, first countTokens issued
PreflightPass ==
  /\ pc = "start"
  /\ Called
  /\ ~KeyMissing(hasApiKey)
  /\ systemPrompt' = SelectPrompt(isDiffReview, isSingleFile)
  /\ IF Len(files) > 0
     THEN /\ index' = 1
          /\ pc' = "counting"
          /\ tokenCounts' = tokenCounts + 1
          /\ UNCHANGED <<aggregatedResult, summaryCalls>>
     ELSE /\ AfterLoop(reviewResults)
          /\ UNCHANGED <<index, tokenCounts>>
  /\ UNCHANGED <<inputs, cli, stdout, chunks, splitter, chunkIndex, chunkReviews, reviewResults,
                 reviewSource, progress, invocations, callLog>>

\* line 253 resolves; lines 255-258 and 171-179 run up to the countTokens of
\* the first line, or lines 319-332 up to the review call
CountTokensReturns ==
  /\ pc = "counting"
  /\ IF Exceeds(CountTokens(files[index].content), ChunkBudget10(model))
     THEN /\ pc' = "splitting"
          /\ stdout' = Append(stdout, [kind |-> "large_file", path |-> files[index].path,
                                       tokens |-> CountTokens(files[index].content)])
          /\ chunks' = <<>>
          /\ maxTokensPerChunk' = ChunkBudget10(model)
          /\ splitIndex' = 1
          /\ currentChunkLines' = <<>>
          /\ currentChunkTokens' = 0
          /\ tokenCounts' = tokenCounts + 1
          /\ UNCHANGED invocations
     ELSE /\ pc' = "invoking"
          /\ invocations' = invocations + 1
          /\ UNCHANGED <<chunks, splitter, tokenCounts, stdout>>
  /\ UNCHANGED <<callLog, inputs, cli, index, systemPrompt, chunkIndex, chunkReviews,
                 reviewResults, reviewSource, progress, summaryCalls,
                 aggregatedResult>>

\* line 253 rejects: geminiModel.countTokens is a request to the provider
\* (lines 158-161) and the await is inside no try block
CountTokensThrows ==
  /\ pc = "counting"
  /\ ProviderOf(model) = "google"
  /\ pc' = "rejected"
  /\ UNCHANGED <<callLog, inputs, cli, stdout, index, systemPrompt, chunks, splitter, chunkIndex, chunkReviews,
                 reviewResults, reviewSource, progress, tokenCounts, invocations,
                 summaryCalls, aggregatedResult>>

\* mutant of FinalChunks: what is left after the last line is not emitted
FinalChunks_DropsFinal(cs, cur, lines) == cs

\* lines 197-203: the chunks returned when the loop ends with the chunks cs
\* and the lines cur in the chunk being filled
FinalChunks(cs, cur, lines) ==
  IF Len(cur) > 0 THEN Push(cs, MakeChunk(cur, FinalStartLine(lines, cur))) ELSE cs

\* lines 193-195 and what follows: the line of the iteration joins the chunk,
\* whose estimate was curTokens and before which the chunks were cs; then the
\* countTokens of the next line is issued (line 179) or, after the last line,
\* the final chunk is pushed and the split returns (lines 197-205)
AddLine(curTokens, cs) ==
  /\ currentChunkLines' = Append(currentChunkLines, files[index].content[splitIndex])
  /\ currentChunkTokens' = curTokens + LineTokens(files[index].content[splitIndex])
  /\ splitIndex' = splitIndex + 1
  /\ IF splitIndex < Len(files[index].content)
     THEN /\ tokenCounts' = tokenCounts + 1
          /\ chunks' = cs
     ELSE /\ chunks' = FinalChunks(cs, currentChunkLines', files[index].content)
          /\ UNCHANGED tokenCounts

\* the await of line 179 resolves: lines 181-190 up to the recount of the
\* kept lines when the line closes the chunk, lines 193-195 and on otherwise
SplitStep ==
  /\ pc = "splitting"
  /\ splitIndex <= Len(files[index].content)
  /\ IF ClosesChunk(currentChunkLines, currentChunkTokens,
                    LineTokens(files[index].content[splitIndex]), maxTokensPerChunk)
     THEN /\ chunks' = Push(chunks, MakeChunk(currentChunkLines,
                                    ClosedStartLine(splitIndex, currentChunkLines)))
          /\ currentChunkLines' = OverlapOf(currentChunkLines)
          /\ tokenCounts' = tokenCounts + 1
          /\ pc' = "recounting"
          /\ UNCHANGED <<splitIndex, currentChunkTokens>>
     ELSE /\ AddLine(currentChunkTokens, chunks)
          /\ UNCHANGED pc
  /\ UNCHANGED <<callLog, inputs, cli, stdout, index, systemPrompt, maxTokensPerChunk, chunkIndex,
                 chunkReviews, reviewResults, reviewSource, progress, invocations,
                 summaryCalls, aggregatedResult>>

\* the await of line 190 resolves: the estimate of the kept lines is assigned
\* and lines 193-195 and on run
SplitRecounted ==
  /\ pc = "recounting"
  /\ AddLine(CountTokens(currentChunkLines), chunks)
  /\ pc' = "splitting"
  /\ UNCHANGED <<callLog, inputs, cli, stdout, index, systemPrompt, maxTokensPerChunk,
                 chunkIndex, chunkReviews, reviewResults, reviewSource, progress,
                 invocations, summaryCalls, aggregatedResult>>

\* the countTokens request awaited at line 179 or at line 190 rejects; line
\* 258 is inside no try block
SplitThrows ==
  /\ pc \in {"splitting", "recounting"}
  /\ pc = "splitting" => splitIndex <= Len(files[index].content)
  /\ ProviderOf(model) = "google"
  /\ pc' = "rejected"
  /\ UNCHANGED <<callLog, inputs, cli, stdout, index, systemPrompt, chunks, splitter, chunkIndex,
                 chunkReviews, reviewResults, reviewSource, progress, tokenCounts,
                 invocations, summaryCalls, aggregatedResult>>

\* mutant of SplitReturns: the review calls of all the chunks are issued at
\* once, as with Promise.all over the chunks
SplitReturns_IssuesAll ==
  /\ pc = "splitting"
  /\ splitIndex > Len(files[index].content)
  /\ chunkReviews' = <<>>
  /\ chunkIndex' = 1
  /\ stdout' = Append(stdout, ReviewingChunk(1, Len(chunks)))
  /\ invocations' = invocations + Len(chunks)
  /\ pc' = "chunkInvoking"
  /\ UNCHANGED <<callLog, inputs, cli, index, systemPrompt, chunks, splitter, reviewResults,
                 reviewSource, progress, tokenCounts, summaryCalls, aggregatedResult>>

\* the split has returned and the await of line 258 resolves: lines 259-277
\* up to the first chunk's review call
SplitReturns ==
  /\ pc = "splitting"
  /\ splitIndex > Len(files[index].content)
  /\ chunkReviews' = <<>>
  /\ chunkIndex' = 1
  /\ stdout' = Append(stdout, ReviewingChunk(1, Len(chunks)))
  /\ invocations' = invocations + 1
  /\ pc' = "chunkInvoking"
  /\ UNCHANGED <<callLog, inputs, cli, index, systemPrompt, chunks, splitter, reviewResults,
                 reviewSource, progress, tokenCounts, summaryCalls, aggregatedResult>>

\* lines 320-347: the review call of a small file returns text
DirectInvokeReturns ==
  /\ pc = "invoking"
  /\ \E resp \in Responses(files[index].path, 0, files[index].content) :
        /\ resp.kind # "throw"
        /\ callLog' = Append(callLog, LogEntry(0, 1, files[index].content, resp))
        /\ NextFile(Push(reviewResults, MakeFileReview(files[index],
                                     ParseOrEmpty(Received(ProviderOf(model), resp)))),
                    Push(reviewSource, index))
  /\ UNCHANGED <<inputs, cli, stdout, systemPrompt, chunks, splitter, chunkIndex, chunkReviews, invocations>>

\* mutant of DirectInvokeThrows: a failed call is recorded like an unparseable one
DirectInvokeThrows_Records ==
  /\ pc = "invoking"
  /\ callLog' = Append(callLog, LogEntry(0, 1, files[index].content, [kind |-> "throw"]))
  /\ NextFile(Push(reviewResults, MakeFileReview(files[index], EmptyObject)),
              Push(reviewSource, index))
  /\ UNCHANGED <<inputs, cli, stdout, systemPrompt, chunks, splitter, chunkIndex, chunkReviews, invocations>>

\* lines 349-351: the review call of a small file throws
DirectInvokeThrows ==
  /\ pc = "invoking"
  /\ callLog' = Append(callLog, LogEntry(0, 1, files[index].content, [kind |-> "throw"]))
  /\ NextFile(reviewResults, reviewSource)
  /\ UNCHANGED <<inputs, cli, stdout, systemPrompt, chunks, splitter, chunkIndex, chunkReviews, invocations>>

\* mutant of AfterChunk: a large file without any chunk result is skipped
AfterChunk_SkipsEmpty(crs) ==
  /\ chunkReviews' = crs
  /\ IF chunkIndex < Len(chunks)
     THEN /\ chunkIndex' = chunkIndex + 1
          /\ stdout' = Append(stdout, ReviewingChunk(chunkIndex + 1, Len(chunks)))
          /\ invocations' = invocations + 1
          /\ UNCHANGED <<pc, index, reviewResults, reviewSource, progress, tokenCounts,
                         summaryCalls, aggregatedResult>>
     ELSE /\ IF crs = <<>>
             THEN NextFile(reviewResults, reviewSource)
             ELSE NextFile(Push(reviewResults, MakeFileReview(files[index], Aggregate(crs))),
                           Push(reviewSource, index))
          /\ UNCHANGED <<chunkIndex, invocations, stdout>>

\* the end of one chunk's iteration with chunkReviews now crs: line 262 and
\* the next chunk's review call, or lines 305-315 and the end of the file's iteration
AfterChunk(crs) ==
  /\ chunkReviews' = crs
  /\ IF chunkIndex < Len(chunks)
     THEN /\ chunkIndex' = chunkIndex + 1
          /\ stdout' = Append(stdout, ReviewingChunk(chunkIndex + 1, Len(chunks)))
          /\ invocations' = invocations + 1
          /\ UNCHANGED <<pc, index, reviewResults, reviewSource, progress, tokenCounts,
                         summaryCalls, aggregatedResult>>
     ELSE /\ NextFile(Push(reviewResults, MakeFileReview(files[index], Aggregate(crs))),
                      Push(reviewSource, index))
          /\ UNCHANGED <<chunkIndex, invocations, stdout>>

\* lines 264-299: the review call of a chunk returns text
ChunkInvokeReturns ==
  /\ pc = "chunkInvoking"
  /\ \E resp \in Responses(files[index].path, chunkIndex, chunks[chunkIndex].content) :
        /\ resp.kind # "throw"
        /\ callLog' = Append(callLog, LogEntry(chunkIndex, chunks[chunkIndex].startLine,
                                               chunks[chunkIndex].content, resp))
        /\ AfterChunk(Push(chunkReviews,
                           AdjustLines(ParseOrEmpty(Received(ProviderOf(model), resp)),
                                       chunks[chunkIndex].startLine)))
  /\ UNCHANGED <<inputs, cli, systemPrompt, chunks, splitter>>

\* lines 300-302: the review call of a chunk throws
ChunkInvokeThrows ==
  /\ pc = "chunkInvoking"
  /\ callLog' = Append(callLog, LogEntry(chunkIndex, chunks[chunkIndex].startLine,
                                         chunks[chunkIndex].content, [kind |-> "throw"]))
  /\ AfterChunk(chunkReviews)
  /\ UNCHANGED <<inputs, cli, systemPrompt, chunks, splitter>>

\* line 368 with generateOverallSummary returning the provider's text
SummaryReturns ==
  /\ pc = "summarizing"
  /\ aggregatedResult' = [aggregatedResult EXCEPT !.summary = "Executive summary."]
  /\ pc' = "done"
  /\ UNCHANGED <<callLog, inputs, cli, stdout, index, systemPrompt, chunks, splitter, chunkIndex, chunkReviews,
                 reviewResults, reviewSource, progress, tokenCounts, invocations,
                 summaryCalls>>

\* mutant of SummaryFails: the provider's error is not caught and rejects
\* performReview
SummaryFails_Rejects ==
  /\ pc = "summarizing"
  /\ pc' = "rejected"
  /\ UNCHANGED <<callLog, inputs, cli, stdout, index, systemPrompt, chunks, splitter, chunkIndex, chunkReviews,
                 reviewResults, reviewSource, progress, tokenCounts, invocations,
                 summaryCalls, aggregatedResult>>

\* line 368 with generateOverallSummary catching a provider error (lines 147-150)
SummaryFails ==
  /\ pc = "summarizing"
  /\ aggregatedResult' =
       [aggregatedResult EXCEPT !.summary = "Could not generate an overall summary."]
  /\ pc' = "done"
  /\ UNCHANGED <<callLog, inputs, cli, stdout, index, systemPrompt, chunks, splitter, chunkIndex, chunkReviews,
                 reviewResults, reviewSource, progress, tokenCounts, invocations,
                 summaryCalls>>

Next ==
  \/ PreflightReject
  \/ PreflightPass
  \/ CountTokensReturns
  \/ CountTokensThrows
  \/ SplitStep
  \/ SplitRecounted
  \/ SplitThrows
  \/ SplitReturns
  \/ DirectInvokeReturns
  \/ DirectInvokeThrows
  \/ ChunkInvokeReturns
  \/ ChunkInvokeThrows
  \/ SummaryReturns
  \/ SummaryFails

Spec == Init /\ [][Next]_vars

LongSpec == LongInit /\ [][Next]_vars

WrapSpec == WrapInit /\ [][Next]_vars

ThresholdSpec == ThresholdInit /\ [][Next]_vars

\* splitCodeIntoChunks alone, from its call to its return
SplitNext ==
  \/ SplitStep
  \/ SplitRecounted
  \/ SplitThrows
  \/ SplitReturns

SplitSpec == SplitInit /\ [][SplitNext]_vars

\* every await of the loop settles: countTokens computes its value locally or
\* the provider's request resolves or rejects, and the loop goes on
SplitLiveSpec == SplitInit /\ [][SplitNext]_vars /\ WF_vars(SplitNext)

(***************************************************************************)
(* lucai review (bin/lucai.js): the option parsing of commander, the merge *)
(* with .lucai.json, and reviewAction, one action per stretch of code      *)
(* between two awaits.  --blame is not given in the runs modelled here.    *)
(***************************************************************************)
review == <<pc, index, systemPrompt, chunks, splitter, chunkIndex, chunkReviews,
            reviewResults, reviewSource, progress, tokenCounts, invocations,
            summaryCalls, callLog, aggregatedResult>>
cliInputs == <<flags, projectConfig, configProvider>>

\* config.provider === 'google' ? 'gemini-1.5-pro-latest' : 'gpt-4o'
DefaultModel(provider) == IF provider = "google" THEN "gemini-1.5-pro-latest" ELSE "gpt-4o"

\* the options object commander hands to reviewAction: the flags given, and
\* for --model the default value declared with the option when it is not given
CommanderOptions(fl, provider) == Merge([model |-> DefaultModel(provider)], fl)

\* { ...projectConfig, ...options }
MergedOptions == Merge(projectConfig, CommanderOptions(flags, configProvider))

\* mergedOptions.path || mergedOptions.file, and mergedOptions.diff
HasTarget(o) == "path" \in DOMAIN o \/ "file" \in DOMAIN o \/ "diff" \in DOMAIN o

\* ${item[key]} in a template string: the value, or the word undefined
Shown(item, key) == IF key \in DOMAIN item THEN item[key] ELSE Undefined

\* Line ${item.line || 'N/A'}
LineInfo(item) ==
  IF "line" \in DOMAIN item /\ item.line # 0 THEN ToString(item.line) ELSE "N/A"

\* formatSection: one entry per item, its description and its line
FormatSection(items) ==
  [j \in 1..Len(items) |->
     [description |-> Shown(items[j], "description"), line |-> LineInfo(items[j])]]

\* formatFixes: one entry per item, its explanation, its line and its code in
\* a diff block
FormatFixes(items) ==
  [j \in 1..Len(items) |->
     [explanation |-> Shown(items[j], "explanation"), line |-> LineInfo(items[j]),
      code |-> Shown(items[j], "code")]]

\* item.code.split('\n') of formatFixes, evaluated only with chalk, throws a
\* TypeError for an item without code
FormatFixesThrows(items, useChalk) ==
  useChalk /\ \E j \in 1..Len(items) : "code" \notin DOMAIN items[j]

\* one file of generateMarkdownReport: the header line when the file has a
\* score and a summary, and the sections of the arrays that are not empty
MarkdownFile(fr) ==
  [path |-> fr.path,
   header |-> IF "score" \in DOMAIN fr /\ "summary" \in DOMAIN fr /\ fr.summary # ""
              THEN <<fr.score, fr.summary>> ELSE <<>>,
   sections |-> [key \in {k \in ArrayKeys \cap DOMAIN fr : fr[k] # <<>>} |->
                   IF key = "fix" THEN FormatFixes(fr[key]) ELSE FormatSection(fr[key])]]

\* generateMarkdownReport(reviewData, useChalk) throws
MarkdownThrows(reviewData, useChalk) ==
  \E k \in 1..Len(reviewData.files) :
     /\ "fix" \in DOMAIN reviewData.files[k]
     /\ FormatFixesThrows(reviewData.files[k].fix, useChalk)

\* generateMarkdownReport(reviewData, useChalk) when it returns; with chalk
\* the text carries the console's styling
GenerateMarkdownReport(reviewData, useChalk) ==
  [format |-> "markdown",
   chalk |-> useChalk,
   score |-> IF "score" \in DOMAIN reviewData THEN <<reviewData.score>> ELSE <<>>,
   summary |-> IF "summary" \in DOMAIN reviewData /\ reviewData.summary # ""
               THEN <<reviewData.summary>> ELSE <<>>,
   files |-> [k \in 1..Len(reviewData.files) |-> MarkdownFile(reviewData.files[k])]]

\* JSON.stringify leaves out a key whose value is undefined: the diff of a
\* FileReview outside a diff review
WithoutUndefined(fr) ==
  [k \in {key \in DOMAIN fr : ~(key = "diff" /\ fr.diff = Undefined)} |-> fr[k]]

\* JSON.stringify(reviewResult, null, 2)
JsonStringify(value) ==
  [format |-> "json",
   value |-> [value EXCEPT !.files =
                [k \in 1..Len(value.files) |-> WithoutUndefined(value.files[k])]]]

\* the finally block (lines 174-181) and the return, with the reviewResult rr,
\* the file content out and the printed lines so reached before it
Finally(rr, out, so) ==
  /\ IF "outputFile" \in DOMAIN MergedOptions /\ rr # Nothing
     THEN /\ outputFile' = GenerateMarkdownReport(rr, FALSE)
          /\ stdout' = Append(so, [kind |-> "saved", format |-> "markdown"])
     ELSE /\ outputFile' = out
          /\ stdout' = so
  /\ cliPc' = "exited"

\* lines 70-91: up to the await of the file discovery, or an early return
CliStart ==
  /\ cliPc = "start"
  /\ IF KeyMissing(hasApiKey)
     THEN /\ stdout' = Append(stdout, [kind |-> "key_missing"])
          /\ cliPc' = "exited"
          /\ UNCHANGED spinner
     ELSE IF ~HasTarget(MergedOptions)
     THEN /\ stdout' = Append(stdout, [kind |-> "target_required"])
          /\ cliPc' = "exited"
          /\ UNCHANGED spinner
     ELSE /\ spinner' = [state |-> "spinning"]
          /\ cliPc' = "scanning"
          /\ UNCHANGED stdout
  /\ UNCHANGED <<inputs, review, cliInputs, reviewResult, outputFile>>

\* lines 97-118: the discovery returns files; the empty report is written,
\* then either nothing is found or performReview is called
ScanReturns ==
  /\ cliPc = "scanning"
  /\ LET out == IF "outputFile" \in DOMAIN MergedOptions
                THEN GenerateMarkdownReport([files |-> <<>>], FALSE) ELSE outputFile
     IN  IF Len(files) = 0
         THEN /\ spinner' = [state |-> "warn"]
              /\ Finally(reviewResult, out, stdout)
         ELSE /\ outputFile' = out
              /\ cliPc' = "reviewing"
              /\ UNCHANGED <<spinner, stdout>>
  /\ UNCHANGED <<inputs, review, cliInputs, reviewResult>>

\* lines 97/99 reject: git fails, or the path does not exist
ScanThrows ==
  /\ cliPc = "scanning"
  /\ spinner' = [state |-> "fail"]
  /\ Finally(reviewResult, outputFile, stdout)
  /\ UNCHANGED <<inputs, review, cliInputs, reviewResult>>

\* lines 118-166: performReview resolves; the report is printed or saved and,
\* with --track, addReview is awaited; when printing the report throws
\* (markdownReport.js line 20) the catch block of line 172 runs instead
ReviewResolved ==
  /\ cliPc = "reviewing"
  /\ pc = "done"
  /\ LET rr == IF "diff" \in DOMAIN MergedOptions
               THEN Merge(aggregatedResult, [reviewType |-> "diff"])
               ELSE aggregatedResult
         json == "output" \in DOMAIN MergedOptions /\ MergedOptions.output = "json"
         toFile == "outputFile" \in DOMAIN MergedOptions
     IN  /\ reviewResult' = rr
         /\ IF ~json /\ ~toFile /\ MarkdownThrows(rr, TRUE)
            THEN /\ spinner' = [state |-> "fail"]
                 /\ Finally(rr, outputFile, stdout)
            ELSE LET report == IF json THEN JsonStringify(rr)
                               ELSE GenerateMarkdownReport(rr, ~toFile)
                     out == IF toFile THEN report ELSE outputFile
                     so == IF toFile
                           THEN Append(stdout, [kind |-> "saved", format |-> report.format])
                           ELSE Append(stdout, [kind |-> "report", report |-> report])
                 IN  /\ spinner' = [state |-> "succeed"]
                     /\ IF "track" \in DOMAIN MergedOptions
                        THEN /\ cliPc' = "tracking"
                             /\ outputFile' = out
                             /\ stdout' = so
                        ELSE Finally(rr, out, so)
  /\ UNCHANGED <<inputs, review, cliInputs>>

\* line 118 rejects: the catch block prints the message, reviewResult was
\* never assigned
ReviewRejected ==
  /\ cliPc = "reviewing"
  /\ pc = "rejected"
  /\ spinner' = [state |-> "fail"]
  /\ Finally(reviewResult, outputFile, stdout)
  /\ UNCHANGED <<inputs, review, cliInputs, reviewResult>>

\* lines 166-170: addReview resolves
TrackReturns ==
  /\ cliPc = "tracking"
  /\ Finally(reviewResult, outputFile, Append(stdout, [kind |-> "tracked"]))
  /\ UNCHANGED <<inputs, review, cliInputs, reviewResult, spinner>>

\* line 166 rejects: the database insert fails
TrackThrows ==
  /\ cliPc = "tracking"
  /\ spinner' = [state |-> "fail"]
  /\ Finally(reviewResult, outputFile, stdout)
  /\ UNCHANGED <<inputs, review, cliInputs, reviewResult>>

\* what is given on the command line and found in .lucai.json
CliFlags ==
  {Merge(Merge(Merge(Merge(t, m), o), f), tr) :
     t \in {EmptyObject, [path |-> "src"], [file |-> "file1.js"], [diff |-> TRUE]},
     m \in {EmptyObject, [model |-> "gemini-pro"]},
     o \in {EmptyObject, [output |-> "json"]},
     f \in {EmptyObject, [outputFile |-> "report.out"]},
     tr \in {EmptyObject, [track |-> TRUE]}}

ProjectConfigs == {EmptyObject, [model |-> "gpt-4"], [output |-> "json"]}

CliContentLists == {<<>>, <<SmallContent>>, <<SmallContent, MidContent>>}

CliInit ==
  /\ flags \in CliFlags
  /\ projectConfig \in ProjectConfigs
  /\ configProvider \in {"openai", "google"}
  /\ hasApiKey \in BOOLEAN
  /\ responseStyles = {}
  /\ model = MergedOptions.model
  /\ isSingleFile = ("file" \in DOMAIN MergedOptions)
  /\ isDiffReview = ("diff" \in DOMAIN MergedOptions)
  /\ \E cs \in CliContentLists :
        /\ "file" \in DOMAIN MergedOptions => Len(cs) <= 1
        /\ ~HasTarget(MergedOptions) => cs = <<>>
        /\ files = SourceFiles(cs, isDiffReview)
  /\ cliPc = "start"
  /\ reviewResult = Nothing
  /\ stdout = <<>>
  /\ outputFile = Nothing
  /\ spinner = Nothing
  /\ pc = "start"
  /\ index = 0
  /\ systemPrompt = Undefined
  /\ chunks = <<>>
  /\ maxTokensPerChunk = 0
  /\ splitIndex = 0
  /\ currentChunkLines = <<>>
  /\ currentChunkTokens = 0
  /\ chunkIndex = 0
  /\ chunkReviews = <<>>
  /\ reviewResults = <<>>
  /\ reviewSource = <<>>
  /\ progress = <<>>
  /\ tokenCounts = 0
  /\ invocations = 0
  /\ summaryCalls = 0
  /\ callLog = <<>>
  /\ aggregatedResult = Undefined

\* reviewAction with the performReview it calls; the key check of line 78
\* comes before the call, so the check of performReview always passes
CliNext ==
  \/ CliStart
  \/ ScanReturns
  \/ ScanThrows
  \/ PreflightPass
  \/ CountTokensReturns
  \/ CountTokensThrows
  \/ SplitStep
  \/ SplitRecounted
  \/ SplitThrows
  \/ SplitReturns
  \/ DirectInvokeReturns
  \/ DirectInvokeThrows
  \/ ChunkInvokeReturns
  \/ ChunkInvokeThrows
  \/ SummaryReturns
  \/ SummaryFails
  \/ ReviewResolved
  \/ ReviewRejected
  \/ TrackReturns
  \/ TrackThrows

CliSpec == CliInit /\ [][CliNext]_vars

(***************************************************************************)
(* Vocabulary of the properties.                                           *)
(***************************************************************************)
LogIndices == 1..Len(callLog)

\* what a finding (description) or a fix (explanation) says
Says(item) == IF "description" \in DOMAIN item THEN item.description ELSE item.explanation
ReviewIndices == 1..Len(reviewResults)

\* file i has a FileReview among the results
HasReview(i) == \E k \in 1..Len(reviewSource) : reviewSource[k] = i
ReviewOf(i) == reviewResults[CHOOSE k \in 1..Len(reviewSource) : reviewSource[k] = i]

\* the loop has left file i behind
MovedPastFile(i) ==
  \/ index > i
  \/ i = Len(files) /\ pc \in {"summarizing", "done"}

\* the chunk loop of file i has left chunk j behind
MovedPastChunk(i, j) ==
  \/ MovedPastFile(i)
  \/ index = i /\ pc = "chunkInvoking" /\ chunkIndex > j

\* s is total / n rounded to the nearest integer, halves upwards
IsRounded(s, total, n) == 2 * n * s - n <= 2 * total /\ 2 * total < 2 * n * s + n

\* sum of the score fields of the objects rs[from..Len(rs)], an absent one as 0
RECURSIVE TotalScore(_, _)
TotalScore(rs, from) ==
  IF from > Len(rs) THEN 0
  ELSE (IF "score" \in DOMAIN rs[from] THEN rs[from].score ELSE 0) + TotalScore(rs, from + 1)

\* the answers to the chunk calls of file i that were pushed (the call did not throw)
PushedAnswers(i) ==
  SelectSeq(callLog, LAMBDA e : e.file = i /\ e.chunk > 0 /\ e.resp.kind # "throw")

\* what those answers parsed to
PushedValues(i) ==
  [k \in 1..Len(PushedAnswers(i)) |->
     IF PushedAnswers(i)[k].resp.kind = "json" THEN PushedAnswers(i)[k].resp.value
     ELSE EmptyObject]

\* file i went through the chunked path
IsChunked(i) == \E k \in LogIndices : callLog[k].file = i /\ callLog[k].chunk > 0

\* every score the provider has returned so far is within 0..100
UnitScoresInRange ==
  \A k \in LogIndices :
     (callLog[k].resp.kind = "json" /\ "score" \in DOMAIN callLog[k].resp.value)
        => callLog[k].resp.value.score \in 0..100

\* performReview has passed the credential check and has resolved or rejected
Settled == pc \in {"done", "rejected"}

\* splitCodeIntoChunks has returned chunks for the current file
SplitReturned ==
  \/ pc = "splitting" /\ splitIndex > Len(files[index].content)
  \/ pc = "chunkInvoking"

\* the lines of the current file
Lines == files[index].content

Min(a, b) == IF a < b THEN a ELSE b

\* number of lines at the head of chunk k that were carried over from chunk k - 1
SeedLen(cs, k) == IF k = 1 THEN 0 ELSE Min(overlapLines, Len(cs[k - 1].content))

\* the lines of chunk k after its seed
NonSeed(cs, k) == SubSeq(cs[k].content, SeedLen(cs, k) + 1, Len(cs[k].content))

\* the file positions of the lines of chunk k after its seed
NonSeedPositions(cs, k) ==
  (cs[k].startLine + SeedLen(cs, k)) .. (cs[k].startLine + Len(cs[k].content) - 1)

\* the non-seed regions of the chunks k, k + 1, ... one after the other
RECURSIVE ConcatNonSeed(_, _)
ConcatNonSeed(cs, k) ==
  IF k > Len(cs) THEN <<>> ELSE NonSeed(cs, k) \o ConcatNonSeed(cs, k + 1)

\* number of good_practices entries the provider returned for file i in the
\* answers logged from position k on
RECURSIVE GoodPracticesReturned(_, _)
GoodPracticesReturned(i, k) ==
  IF k > Len(callLog) THEN 0
  ELSE (IF /\ callLog[k].file = i
           /\ callLog[k].resp.kind = "json"
           /\ "good_practices" \in DOMAIN callLog[k].resp.value
        THEN Len(callLog[k].resp.value.good_practices) ELSE 0)
       + GoodPracticesReturned(i, k + 1)

\* number of good_practices entries of a FileReview, an absent array as none
GoodPracticesOf(r) == IF "good_practices" \in DOMAIN r THEN Len(r.good_practices) ELSE 0

\* the reports the user has: those printed and the one in the output file
ReportsShown ==
  {stdout[i].report : i \in {j \in 1..Len(stdout) : stdout[j].kind = "report"}} \cup
  (IF outputFile = Nothing THEN {} ELSE {outputFile})

\* the paths of the files a report lists, in the report's order
ReportedPaths(report) ==
  IF report.format = "json"
  THEN [k \in 1..Len(report.value.files) |-> report.value.files[k].path]
  ELSE [k \in 1..Len(report.files) |-> report.files[k].path]

\* reviewAction has returned after the catch block reported a failure
CliFailed == cliPc = "exited" /\ spinner = [state |-> "fail"]

\* the value an option should have: the flag, else .lucai.json, else the default
ByPrecedence(key, default) ==
  IF key \in DOMAIN flags THEN flags[key]
  ELSE IF key \in DOMAIN projectConfig THEN projectConfig[key]
  ELSE default

\* the formats of the reports printed or announced as saved so far
FormatsProduced ==
  {IF stdout[i].kind = "report" THEN stdout[i].report.format ELSE stdout[i].format :
     i \in {j \in 1..Len(stdout) : stdout[j].kind \in {"report", "saved"}}}

\* the lines "Chunk j: summary" of the chunk answers as[from..] that carry a
\* summary, j being the chunk's position among the file's chunks, joined by
\* newlines
RECURSIVE JoinChunkSummaries(_, _, _)
JoinChunkSummaries(as, from, first) ==
  IF from > Len(as) THEN ""
  ELSE IF as[from].resp.kind = "json" /\ "summary" \in DOMAIN as[from].resp.value
       THEN (IF first THEN "" ELSE "\n")
            \o "Chunk " \o ToString(as[from].chunk) \o ": " \o as[from].resp.value.summary
            \o JoinChunkSummaries(as, from + 1, FALSE)
       ELSE JoinChunkSummaries(as, from + 1, first)

\* what the findings of a sequence say, in order
DescriptionsOf(items) == [j \in 1..Len(items) |-> Says(items[j])]

\* the descriptions of the findings under key in the values vs[from..], one
\* value after the other; a value without the key gives none
RECURSIVE ConcatDescriptions(_, _, _)
ConcatDescriptions(vs, key, from) ==
  IF from > Len(vs) THEN <<>>
  ELSE (IF key \in DOMAIN vs[from] THEN DescriptionsOf(vs[from][key]) ELSE <<>>)
       \o ConcatDescriptions(vs, key, from + 1)

\* number of findings under key in the values vs[from..]
RECURSIVE CountFindings(_, _, _)
CountFindings(vs, key, from) ==
  IF from > Len(vs) THEN 0
  ELSE (IF key \in DOMAIN vs[from] THEN Len(vs[from][key]) ELSE 0)
       + CountFindings(vs, key, from + 1)

\* review calls issued and neither answered nor failed yet
OutstandingReviewCalls == invocations - Len(callLog)

\* a token-count request (line 253, 179 or 190) or the overall-summary call is
\* awaited
OtherRequestAwaited ==
  \/ pc \in {"counting", "recounting", "summarizing"}
  \/ pc = "splitting" /\ splitIndex <= Len(files[index].content)

\* the file and chunk (0 for a small file) of log entry k come before those of
\* log entry l
LoggedBefore(k, l) ==
  \/ callLog[k].file < callLog[l].file
  \/ callLog[k].file = callLog[l].file /\ callLog[k].chunk < callLog[l].chunk

\* the whole-content estimate of file i is above 90% of the model's window
AboveThreshold(i) == 10 * CountTokens(files[i].content) > 9 * MaxTokensOf(model)

\* the log entries of the review calls made for file i
CallsFor(i) == {k \in LogIndices : callLog[k].file = i}

\* 1-based position in the content of the last line of chunk k of chunks cs
LastLineOf(cs, k) == cs[k].startLine + Len(cs[k].content) - 1

\* every chunk ends on a later line than the chunk before it
LastLinesIncrease(cs) == \A k \in 1..(Len(cs) - 1) : LastLineOf(cs, k) < LastLineOf(cs, k + 1)

\* sum of the per-line estimates countTokens(line + '\n') of the lines ls
RECURSIVE SumLineTokens(_)
SumLineTokens(ls) == IF ls = <<>> THEN 0 ELSE LineTokens(Head(ls)) + SumLineTokens(Tail(ls))

(***************************************************************************)
(* C1: after the credential check, onProgress is called exactly once per   *)
(* input file, with completed = 1, 2, ..., N in that order and total = N,  *)
(* each call right after that file's outcome is decided.                   *)
(***************************************************************************)
C1_ProgressOncePerFile ==
  hasApiKey =>
    /\ Len(progress) <= Len(files)
    /\ \A i \in 1..Len(progress) : progress[i] = <<i, Len(files)>>
    /\ pc \in {"counting", "splitting", "recounting", "invoking", "chunkInvoking"}
          => Len(progress) = index - 1
    /\ pc \in {"summarizing", "done", "rejected"} => Len(progress) = Len(files)

(***************************************************************************)
(* C2: once the credential check has passed, performReview never rejects,  *)
(* whatever fails while one file or one chunk is processed.                *)
(***************************************************************************)
C2_NoRejectAfterPreflight == hasApiKey => pc # "rejected"

(***************************************************************************)
(* C3: without an API key performReview rejects before any work: no token  *)
(* count, no review call, no summary call, no onProgress call, no          *)
(* FileReview and no result.                                               *)
(***************************************************************************)
C3_NoKeyRejectsBeforeAnyWork ==
  ~hasApiKey =>
    /\ pc \in {"start", "rejected"}
    /\ tokenCounts = 0
    /\ invocations = 0
    /\ summaryCalls = 0
    /\ progress = <<>>
    /\ callLog = <<>>
    /\ reviewResults = <<>>
    /\ aggregatedResult = Undefined

C3_Witness == ~hasApiKey /\ pc = "rejected" /\ Len(files) > 0

(***************************************************************************)
(* C4: a small file whose review call throws gets no FileReview, its       *)
(* onProgress call is still made and the loop goes on; every other small   *)
(* file whose call returned has its FileReview, with the keys the provider *)
(* returned (diff apart, which is the SourceFile's).                       *)
(***************************************************************************)
C4_DirectThrowSkipsFile ==
  \A k \in LogIndices :
     (callLog[k].chunk = 0 /\ callLog[k].resp.kind = "throw") =>
        /\ ~HasReview(callLog[k].file)
        /\ Len(progress) >= callLog[k].file
        /\ MovedPastFile(callLog[k].file)
        /\ \A m \in LogIndices :
              (callLog[m].chunk = 0 /\ callLog[m].resp.kind = "json") =>
                 /\ HasReview(callLog[m].file)
                 /\ \A key \in DOMAIN callLog[m].resp.value \ {"diff"} :
                       ReviewOf(callLog[m].file)[key] = callLog[m].resp.value[key]

C4_Witness ==
  /\ pc = "done"
  /\ Len(files) >= 2
  /\ \E k \in LogIndices :
        callLog[k].file = 1 /\ callLog[k].chunk = 0 /\ callLog[k].resp.kind = "throw"
  /\ \E m \in LogIndices :
        callLog[m].file = 2 /\ callLog[m].chunk = 0 /\ callLog[m].resp.kind = "json"

(***************************************************************************)
(* C5: an answer that does not parse is replaced by the empty object: a    *)
(* small file's FileReview then holds its path and diff only, a chunk is   *)
(* counted as one (empty) entry of its file's aggregation, and the units   *)
(* after it are still processed.                                           *)
(***************************************************************************)
C5_ParseFailureSubstitutesEmpty ==
  \A k \in LogIndices :
     callLog[k].resp.kind = "badjson" =>
        LET f == callLog[k].file
            j == callLog[k].chunk
        IN  IF j = 0
            THEN /\ HasReview(f)
                 /\ ReviewOf(f) = [path |-> files[f].path, diff |-> files[f].diff]
                 /\ MovedPastFile(f)
            ELSE /\ MovedPastChunk(f, j)
                 /\ (index = f /\ pc = "chunkInvoking") =>
                       /\ Len(chunkReviews) = Len(PushedAnswers(f))
                       /\ \E p \in 1..Len(chunkReviews) :
                             /\ PushedAnswers(f)[p].chunk = j
                             /\ chunkReviews[p] = EmptyObject
                 /\ HasReview(f) =>
                       IsRounded(ReviewOf(f).score, TotalScore(PushedValues(f), 1),
                                 Len(PushedAnswers(f)))

C5_Witness ==
  /\ pc = "done"
  /\ Len(files) >= 2
  /\ \E k \in LogIndices :
        callLog[k].file = 1 /\ callLog[k].chunk = 0 /\ callLog[k].resp.kind = "badjson"
  /\ \E m \in LogIndices :
        /\ callLog[m].file = 2 /\ callLog[m].chunk = 1 /\ callLog[m].resp.kind = "badjson"
        /\ Len(PushedAnswers(2)) >= 2
        /\ ReviewOf(2).score > 0

(***************************************************************************)
(* C6: the FileReviews are in the order of the input files: each comes     *)
(* from one input file (it has that file's diff and quotes that file's     *)
(* path in its findings), no file has two, and their files are in          *)
(* increasing input position; the result's files are these FileReviews.    *)
(***************************************************************************)
C6_FilesKeepInputOrder ==
  /\ Len(reviewSource) = Len(reviewResults)
  /\ \A k \in ReviewIndices :
        /\ reviewSource[k] \in 1..Len(files)
        /\ reviewResults[k].diff = files[reviewSource[k]].diff
        /\ \A key \in ArrayKeys \cap DOMAIN reviewResults[k] :
              \A p \in 1..Len(reviewResults[k][key]) :
                 Says(reviewResults[k][key][p]).file = files[reviewSource[k]].path
  /\ \A k1, k2 \in ReviewIndices : k1 < k2 => reviewSource[k1] < reviewSource[k2]
  /\ pc = "done" => aggregatedResult.files = reviewResults

C6_Witness ==
  /\ pc = "done"
  /\ isDiffReview
  /\ Len(files) >= 2
  /\ Len(aggregatedResult.files) = Len(files)
  /\ \E key \in ArrayKeys \cap DOMAIN aggregatedResult.files[2] :
        Len(aggregatedResult.files[2][key]) > 0

(***************************************************************************)
(* C7: with isSingleFile the result has neither a score key nor a summary  *)
(* key.                                                                    *)
(***************************************************************************)
C7_SingleFileOmitsScoreAndSummary ==
  (pc = "done" /\ isSingleFile) =>
     /\ "score" \notin DOMAIN aggregatedResult
     /\ "summary" \notin DOMAIN aggregatedResult
     /\ "files" \in DOMAIN aggregatedResult

C7_Witness ==
  /\ pc = "done"
  /\ isSingleFile
  /\ ~isDiffReview
  /\ Len(files) = 1
  /\ Len(reviewResults) = 1
  /\ "score" \in DOMAIN reviewResults[1]

(***************************************************************************)
(* C8: without isSingleFile the result's score is the mean of the          *)
(* FileReviews' scores (an absent one as 0) rounded to the nearest         *)
(* integer, and 0 when there is no FileReview.                             *)
(***************************************************************************)
C8_OverallScoreIsRoundedMean ==
  (pc = "done" /\ ~isSingleFile) =>
     IF Len(aggregatedResult.files) = 0
     THEN aggregatedResult.score = 0
     ELSE IsRounded(aggregatedResult.score, TotalScore(aggregatedResult.files, 1),
                    Len(aggregatedResult.files))

C8_Witness ==
  /\ pc = "done"
  /\ ~isSingleFile
  /\ Len(aggregatedResult.files) = 2
  /\ \E k \in 1..2 : "score" \notin DOMAIN aggregatedResult.files[k]
  /\ TotalScore(aggregatedResult.files, 1) % 2 = 1

(***************************************************************************)
(* C9 as claimed: every aggregated score (a large file's score over its    *)
(* chunks, the result's score over its files) is within 0..100, whatever   *)
(* scores the provider returned.                                           *)
(***************************************************************************)
C9_ScoresAlwaysInRange ==
  /\ \A k \in ReviewIndices :
        IsChunked(reviewSource[k]) => reviewResults[k].score \in 0..100
  /\ (pc = "done" /\ ~isSingleFile) => aggregatedResult.score \in 0..100

(***************************************************************************)
(* C9 as amended: every aggregated score is within 0..100 provided every   *)
(* score the provider returned for a unit is within 0..100 or absent.      *)
(***************************************************************************)
C9_ScoresInRangeForUnitScoresInRange == UnitScoresInRange => C9_ScoresAlwaysInRange

C9_Witness ==
  /\ pc = "done"
  /\ ~isSingleFile
  /\ UnitScoresInRange
  /\ Len(reviewResults) = 2
  /\ IsChunked(reviewSource[1])
  /\ Len(PushedAnswers(reviewSource[1])) = 2
  /\ TotalScore(PushedValues(reviewSource[1]), 1) > 100
  /\ aggregatedResult.score > 0

(***************************************************************************)
(* C10: every finding or fix the provider reports at line L of a chunk     *)
(* with startLine S is in the large file's FileReview exactly once, at     *)
(* line L + S - 1, and the file's line with that number is the line at     *)
(* position L of the chunk.                                                *)
(***************************************************************************)
C10_FindingsRemappedToFileLines ==
  \A k \in LogIndices :
     (callLog[k].chunk > 0 /\ callLog[k].resp.kind = "json" /\ HasReview(callLog[k].file)) =>
        LET e == callLog[k]
            rv == ReviewOf(e.file)
        IN  \A key \in ArrayKeys \cap DOMAIN e.resp.value :
               \A p \in 1..Len(e.resp.value[key]) :
                  LET reported == e.resp.value[key][p]
                      L == reported.line
                      found == {q \in 1..Len(rv[key]) :
                                  Says(rv[key][q]) = Says(reported)}
                  IN  /\ L \in 1..Len(e.content)
                      /\ Cardinality(found) = 1
                      /\ \A q \in found :
                            /\ rv[key][q].line = L + e.startLine - 1
                            /\ rv[key][q].line \in 1..Len(files[e.file].content)
                            /\ files[e.file].content[rv[key][q].line] = e.content[L]

C10_Witness ==
  /\ pc = "done"
  /\ \E k \in LogIndices :
        /\ callLog[k].chunk = 3
        /\ callLog[k].startLine > 1
        /\ callLog[k].resp.kind = "json"
        /\ "fix" \in DOMAIN callLog[k].resp.value
        /\ HasReview(callLog[k].file)
        /\ Len(ReviewOf(callLog[k].file).fix) = 3

(***************************************************************************)
(* C11: the chunks splitCodeIntoChunks returns cover the file: the lines   *)
(* of the chunks after their seeds, taken in chunk order, are the lines of *)
(* the file in order, and every line number of the file is in the          *)
(* non-seed region of exactly one chunk.                                   *)
(***************************************************************************)
C11_ChunksCoverTheFile ==
  SplitReturned =>
    /\ ConcatNonSeed(chunks, 1) = Lines
    /\ \A n \in 1..Len(Lines) :
          Cardinality({k \in 1..Len(chunks) : n \in NonSeedPositions(chunks, k)}) = 1
    /\ \A k \in 1..Len(chunks) : NonSeedPositions(chunks, k) \subseteq 1..Len(Lines)

C11_Witness ==
  /\ SplitReturned
  /\ Len(chunks) >= 3
  /\ Len(chunks[1].content) > overlapLines
  /\ Len(NonSeed(chunks, 2)) > 1

(***************************************************************************)
(* C12 as claimed: in a diff review every FileReview's good_practices is   *)
(* empty (or absent), whatever the provider returned.                      *)
(***************************************************************************)
C12_DiffGoodPracticesEmpty ==
  isDiffReview => \A k \in ReviewIndices : GoodPracticesOf(reviewResults[k]) = 0

(***************************************************************************)
(* C12 as amended: in a diff review every review call is made with the     *)
(* diff prompt, also when isSingleFile is set, and a FileReview holds as   *)
(* many good_practices entries as the provider returned for its file:      *)
(* none when the provider followed the prompt, and nothing is stripped     *)
(* when it did not.                                                        *)
(***************************************************************************)
C12_DiffGoodPracticesAsReturned ==
  isDiffReview =>
    /\ invocations > 0 => systemPrompt = "diff"
    /\ \A k \in ReviewIndices :
          GoodPracticesOf(reviewResults[k]) = GoodPracticesReturned(reviewSource[k], 1)

C12_Witness ==
  /\ pc = "done"
  /\ isDiffReview
  /\ isSingleFile
  /\ Len(reviewResults) = 2
  /\ IsChunked(reviewSource[1])
  /\ Len(PushedAnswers(reviewSource[1])) = 2
  /\ reviewResults[1].good_practices = <<>>
  /\ ~IsChunked(reviewSource[2])
  /\ "issues" \in DOMAIN reviewResults[2]
  /\ "good_practices" \notin DOMAIN reviewResults[2]

(***************************************************************************)
(* C13: for either provider, an answer that is one JSON object wrapped in  *)
(* a code fence or with commentary before or after it is used as that      *)
(* object: a small file's FileReview has the object's keys and values, a   *)
(* chunk's entry of chunkReviews is the object with its lines remapped,    *)
(* and the object's findings are in the large file's FileReview.           *)
(***************************************************************************)
C13_WrappedJsonIsUsed ==
  \A k \in LogIndices :
     callLog[k].resp.kind = "wrapped" =>
        LET e == callLog[k]
            o == e.resp.text[CHOOSE j \in 1..Len(e.resp.text) : e.resp.text[j].seg = "json"].value
            p == Cardinality({m \in 1..k : /\ callLog[m].file = e.file
                                           /\ callLog[m].chunk > 0
                                           /\ callLog[m].resp.kind # "throw"})
        IN  IF e.chunk = 0
            THEN /\ HasReview(e.file)
                 /\ \A key \in DOMAIN o :
                       /\ key \in DOMAIN ReviewOf(e.file)
                       /\ ReviewOf(e.file)[key] = o[key]
            ELSE /\ (index = e.file /\ pc = "chunkInvoking") =>
                       chunkReviews[p] = AdjustLines(o, e.startLine)
                 /\ HasReview(e.file) =>
                       \E q \in 1..Len(ReviewOf(e.file).issues) :
                          ReviewOf(e.file).issues[q].description = o.issues[1].description

(***************************************************************************)
(* C14: when a run of lucai review fails after FileReviews have been       *)
(* recorded, a report that lists those FileReviews has been printed or is  *)
(* in the output file.                                                     *)
(***************************************************************************)
C14_FailureComesWithPartialResults ==
  (CliFailed /\ reviewResults # <<>>) =>
     \E report \in ReportsShown :
        ReportedPaths(report) = [k \in ReviewIndices |-> reviewResults[k].path]

(***************************************************************************)
(* C15: lucai review uses for every option the command-line flag when one  *)
(* was given, else the value of .lucai.json when it has one, else the      *)
(* built-in default: performReview is called with the model chosen this    *)
(* way, and a report that is printed or saved is produced in the output    *)
(* format chosen this way.                                                 *)
(***************************************************************************)
C15_FlagThenConfigThenDefault ==
  /\ cliPc = "reviewing" => model = ByPrecedence("model", DefaultModel(configProvider))
  /\ FormatsProduced # {} => ByPrecedence("output", "markdown") \in FormatsProduced

(***************************************************************************)
(* C16: every FileReview, of a small or of a large file, has a diff field  *)
(* and it is the diff of its SourceFile, also when the provider's answer   *)
(* has a diff key of its own.                                              *)
(***************************************************************************)
C16_DiffCarriedForward ==
  \A k \in ReviewIndices :
     /\ "diff" \in DOMAIN reviewResults[k]
     /\ reviewResults[k].diff = DiffOf(reviewSource[k], isDiffReview)

C16_Witness ==
  /\ pc = "done"
  /\ isDiffReview
  /\ Len(reviewResults) = 2
  /\ \E k \in ReviewIndices :
        /\ IsChunked(reviewSource[k])
        /\ reviewResults[k].issues # <<>>
  /\ \E m \in LogIndices :
        /\ callLog[m].chunk = 0
        /\ callLog[m].resp.kind = "json"
        /\ "diff" \in DOMAIN callLog[m].resp.value
        /\ HasReview(callLog[m].file)

(***************************************************************************)
(* C17: every chunk splitCodeIntoChunks returns that holds more than one   *)
(* line is token-bounded: the per-line estimates of its lines, seed lines  *)
(* included, add up to at most maxTokensPerChunk.                          *)
(***************************************************************************)
C17_ChunksTokenBounded ==
  SplitReturned =>
    \A k \in 1..Len(chunks) :
       Len(chunks[k].content) > 1 =>
          ~Exceeds(SumLineTokens(chunks[k].content), maxTokensPerChunk)

(***************************************************************************)
(* C18: a line whose own estimate exceeds maxTokensPerChunk is alone in    *)
(* every chunk that contains it, wherever it is in the file.               *)
(***************************************************************************)
C18_OversizedLineAlone ==
  SplitReturned =>
    \A k \in 1..Len(chunks) :
       \A j \in 1..Len(chunks[k].content) :
          Exceeds(LineTokens(chunks[k].content[j]), maxTokensPerChunk)
             => Len(chunks[k].content) = 1

(***************************************************************************)
(* C19: the first chunk starts at line 1; every later chunk begins with    *)
(* the last min(50, n) lines of the chunk before it (n its line count),    *)
(* has after them at least one line the chunk before it does not reach,    *)
(* and its startLine is the file position of the first seeded line; every  *)
(* chunk is the run of file lines that starts at its startLine.            *)
(***************************************************************************)
C19_NextChunkSeededWithOverlap ==
  SplitReturned =>
    /\ Len(chunks) >= 1
    /\ chunks[1].startLine = 1
    /\ \A k \in 1..Len(chunks) :
          /\ chunks[k].startLine + Len(chunks[k].content) - 1 <= Len(Lines)
          /\ chunks[k].content =
                SubSeq(Lines, chunks[k].startLine,
                       chunks[k].startLine + Len(chunks[k].content) - 1)
    /\ \A k \in 2..Len(chunks) :
          LET prev == chunks[k - 1]
              cur == chunks[k]
              n == Len(prev.content)
              m == Min(overlapLines, n)
          IN  /\ Len(cur.content) > m
              /\ SubSeq(cur.content, 1, m) = SubSeq(prev.content, n - m + 1, n)
              /\ cur.startLine = prev.startLine + n - m
              /\ cur.startLine + Len(cur.content) - 1 > prev.startLine + n - 1

C19_Witness ==
  /\ SplitReturned
  /\ Len(chunks) >= 2
  /\ Len(chunks[1].content) > overlapLines
  /\ chunks[2].startLine = Len(chunks[1].content) - overlapLines + 1
  /\ Len(chunks[2].content) > overlapLines

(***************************************************************************)
(* C20: a file that went through the chunked path has exactly one          *)
(* FileReview once its chunks are done, whatever the chunk calls did; when *)
(* every chunk call threw, that FileReview has the five arrays empty,      *)
(* score 0 and the fallback summary.                                       *)
(***************************************************************************)
C20_ChunkedFileYieldsOneReview ==
  \A i \in 1..Len(files) :
     (IsChunked(i) /\ MovedPastFile(i)) =>
        /\ Cardinality({k \in ReviewIndices : reviewSource[k] = i}) = 1
        /\ pc = "done" =>
              \E k \in 1..Len(aggregatedResult.files) :
                 aggregatedResult.files[k] = ReviewOf(i)
        /\ PushedAnswers(i) = <<>> =>
              ReviewOf(i) = [path |-> files[i].path, dangers |-> <<>>, issues |-> <<>>,
                             suggestions |-> <<>>, good_practices |-> <<>>, fix |-> <<>>,
                             score |-> 0, summary |-> "Review completed for large file.",
                             diff |-> files[i].diff]

C20_Witness ==
  /\ pc = "done"
  /\ \E i \in 1..Len(files) :
        /\ IsChunked(i)
        /\ PushedAnswers(i) = <<>>
        /\ Cardinality({k \in LogIndices : callLog[k].file = i /\ callLog[k].chunk > 0}) >= 2
        /\ HasReview(i)

(***************************************************************************)
(* C21: the summary of a large file's FileReview is made of the lines      *)
(* "Chunk j: summary", one per chunk result that has a summary, j being    *)
(* the chunk's position among the file's chunks; it is the fallback string *)
(* whenever no chunk result has a summary.                                 *)
(***************************************************************************)
C21_ChunkSummariesJoined ==
  \A i \in 1..Len(files) :
     (IsChunked(i) /\ HasReview(i)) =>
        ReviewOf(i).summary =
           (IF JoinChunkSummaries(PushedAnswers(i), 1, TRUE) = ""
            THEN "Review completed for large file."
            ELSE JoinChunkSummaries(PushedAnswers(i), 1, TRUE))

(***************************************************************************)
(* C22: the score of a large file's FileReview is the mean of its chunk    *)
(* results' scores, a chunk result without a score counting as 0, rounded  *)
(* to the nearest integer; it is 0 when the file has no chunk result.      *)
(***************************************************************************)
C22_ChunkedScoreIsRoundedMean ==
  \A i \in 1..Len(files) :
     (IsChunked(i) /\ HasReview(i)) =>
        IF PushedValues(i) = <<>>
        THEN ReviewOf(i).score = 0
        ELSE IsRounded(ReviewOf(i).score, TotalScore(PushedValues(i), 1),
                       Len(PushedValues(i)))

\* a large file with two chunk results, one of them without a score, whose
\* mean is not an integer
C22_Witness ==
  \E i \in 1..Len(files) :
     /\ IsChunked(i) /\ HasReview(i)
     /\ Len(PushedValues(i)) = 2
     /\ "score" \notin DOMAIN PushedValues(i)[2]
     /\ TotalScore(PushedValues(i), 1) = 85
     /\ ReviewOf(i).score = 43

(***************************************************************************)
(* C23: each of dangers, issues, suggestions, good_practices and fix of a  *)
(* large file's FileReview holds the findings of the chunk results, chunk  *)
(* after chunk and in each chunk's own order; a chunk result without the   *)
(* array adds nothing, and no finding is dropped or merged: the length is  *)
(* the sum of the chunks' lengths.                                         *)
(***************************************************************************)
C23_ArraysConcatenatedInChunkOrder ==
  \A i \in 1..Len(files) :
     (IsChunked(i) /\ HasReview(i)) =>
        \A key \in ArrayKeys :
           /\ key \in DOMAIN ReviewOf(i)
           /\ DescriptionsOf(ReviewOf(i)[key]) = ConcatDescriptions(PushedValues(i), key, 1)
           /\ Len(ReviewOf(i)[key]) = CountFindings(PushedValues(i), key, 1)

\* two chunk results that both carry issues and a fix, only the second of
\* them dangers
C23_Witness ==
  \E i \in 1..Len(files) :
     /\ IsChunked(i) /\ HasReview(i)
     /\ Len(PushedValues(i)) = 2
     /\ "issues" \in DOMAIN PushedValues(i)[1]
     /\ "issues" \in DOMAIN PushedValues(i)[2]
     /\ "dangers" \notin DOMAIN PushedValues(i)[1]
     /\ "dangers" \in DOMAIN PushedValues(i)[2]
     /\ Len(ReviewOf(i).issues) = 2
     /\ ReviewOf(i).issues[1].description.chunk = 1
     /\ ReviewOf(i).issues[2].description.chunk = 2
     /\ Len(ReviewOf(i).fix) = 2
     /\ ReviewOf(i).fix[2].explanation.chunk = 2
     /\ Len(ReviewOf(i).dangers) = 1

(***************************************************************************)
(* C24: during a run at most one request to the provider is outstanding:   *)
(* a review call is outstanding exactly while performReview awaits it, no  *)
(* review call is outstanding while a token count or the overall summary   *)
(* is awaited, every answered or failed call is for a file or chunk before *)
(* the one being awaited, and calls complete in file order and, within a   *)
(* file, in chunk order.                                                   *)
(***************************************************************************)
C24_OneRequestAtATime ==
  /\ OutstandingReviewCalls \in {0, 1}
  /\ OutstandingReviewCalls = 1 <=> pc \in {"invoking", "chunkInvoking"}
  /\ OtherRequestAwaited => OutstandingReviewCalls = 0
  /\ \A k, l \in LogIndices : k < l => LoggedBefore(k, l)
  /\ \A k \in LogIndices :
        \/ pc \in {"done", "rejected", "summarizing"}
        \/ callLog[k].file < index
        \/ callLog[k].file = index /\ pc = "chunkInvoking" /\ callLog[k].chunk < chunkIndex

\* the second chunk of the second file is awaited after a failed and an
\* answered call
C24_Witness ==
  /\ pc = "chunkInvoking"
  /\ index = 2
  /\ chunkIndex = 2
  /\ OutstandingReviewCalls = 1
  /\ Len(callLog) >= 2
  /\ callLog[1].resp.kind = "throw"
  /\ callLog[Len(callLog)].resp.kind = "json"

(***************************************************************************)
(* C25: a file is split into chunks exactly when its whole-content token   *)
(* estimate is strictly above 90% of the model's context window (2048 for  *)
(* a model that is not in the table); a file at or below the threshold is  *)
(* reviewed by exactly one call, made for the whole file.                  *)
(***************************************************************************)
C25_ChunkedIffAboveThreshold ==
  \A i \in 1..Len(files) :
     /\ (index = i /\ pc \in {"splitting", "recounting", "chunkInvoking"}) => AboveThreshold(i)
     /\ (index = i /\ pc = "invoking") => ~AboveThreshold(i)
     /\ \A k \in CallsFor(i) : callLog[k].chunk > 0 <=> AboveThreshold(i)
     /\ (MovedPastFile(i) /\ ~AboveThreshold(i)) => Cardinality(CallsFor(i)) = 1
     /\ (MovedPastFile(i) /\ AboveThreshold(i)) => Cardinality(CallsFor(i)) >= 1

\* a file whose estimate equals the threshold has been reviewed by one call
\* for the whole file
C25_Witness ==
  \E i \in 1..Len(files) :
     /\ 10 * CountTokens(files[i].content) = 9 * MaxTokensOf(model)
     /\ MovedPastFile(i)
     /\ HasReview(i)
     /\ Cardinality(CallsFor(i)) = 1
     /\ \A k \in CallsFor(i) : callLog[k].chunk = 0

(***************************************************************************)
(* C26: the path of every FileReview is the path of the SourceFile it was  *)
(* made for, whatever keys the model's answer has, for small and for large *)
(* files.                                                                  *)
(***************************************************************************)
C26_PathIsSourcePath ==
  \A k \in ReviewIndices : reviewResults[k].path = files[reviewSource[k]].path

(***************************************************************************)
(* C27: when reviewAction is run with --output json and --output-file and  *)
(* the review completes, the output file holds the JSON serialization of   *)
(* the review once reviewAction has finished, not a markdown report.       *)
(***************************************************************************)
C27_JsonFileHoldsJson ==
  ( /\ cliPc = "exited"
    /\ reviewResult # Nothing
    /\ "outputFile" \in DOMAIN MergedOptions
    /\ "output" \in DOMAIN MergedOptions
    /\ MergedOptions.output = "json" )
  => outputFile = JsonStringify(reviewResult)

(***************************************************************************)
(* C28: the overall-summary call is made at most once in a run, after the  *)
(* progress callback of the last file, and exactly when isSingleFile is    *)
(* false and at least one FileReview was recorded; a multi-file run        *)
(* without the call returns score 0 and the placeholder summary.           *)
(***************************************************************************)
C28_SummaryCallOnceWhenNeeded ==
  /\ summaryCalls \in {0, 1}
  /\ summaryCalls = 1 =>
        /\ pc \in {"summarizing", "done"}
        /\ Len(progress) = Len(files)
        /\ ~isSingleFile
        /\ Len(reviewResults) >= 1
  /\ pc \in {"summarizing", "done"} =>
        (summaryCalls = 1 <=> (~isSingleFile /\ Len(reviewResults) >= 1))
  /\ (pc = "done" /\ ~isSingleFile /\ summaryCalls = 0) =>
        /\ aggregatedResult.score = 0
        /\ aggregatedResult.summary = "Overall review summary across all files."

\* a two-file run in which one file was skipped has made the call and returned
C28_Witness ==
  /\ pc = "done"
  /\ ~isSingleFile
  /\ Len(files) = 2
  /\ Len(progress) = 2
  /\ Len(reviewResults) = 1
  /\ summaryCalls = 1

(***************************************************************************)
(* C29: splitCodeIntoChunks comes to an end for every content and every    *)
(* maxTokensPerChunk, also one smaller than any line; when it returns it   *)
(* returns at least one chunk and at most as many chunks as the content    *)
(* has lines, each chunk ending on a later line than the chunk before it.  *)
(***************************************************************************)
C29_SplitTerminatesWithBoundedChunks ==
  /\ <>(pc \notin {"splitting", "recounting"})
  /\ [](pc \in {"splitting", "recounting"} =>
          (Len(chunks) < splitIndex /\ LastLinesIncrease(chunks)))
  /\ [](SplitReturned =>
          /\ Len(chunks) >= 1
          /\ Len(chunks) <= Len(Lines)
          /\ LastLinesIncrease(chunks)
          /\ LastLineOf(chunks, Len(chunks)) = Len(Lines))

\* a budget smaller than every line of a three-line content: one chunk per line
C29_Witness ==
  /\ SplitReturned
  /\ Len(Lines) = 3
  /\ \A j \in 1..3 : LineTokens(Lines[j]) * 10 > maxTokensPerChunk
  /\ Len(chunks) = 3

(***************************************************************************)
(* C30: a failure of the overall-summary call does not fail the run: once  *)
(* the call was made performReview is awaiting it or has resolved, never   *)
(* rejected, and a result whose summary is the text for a failed call has  *)
(* the files and the score it has when the call succeeds: all FileReviews  *)
(* recorded and the rounded mean of their scores.                          *)
(***************************************************************************)
C30_SummaryFailureKeepsResult ==
  /\ summaryCalls = 1 => pc \in {"summarizing", "done"}
  /\ (pc = "done" /\ summaryCalls = 1) =>
        /\ aggregatedResult.summary \in
              {"Executive summary.", "Could not generate an overall summary."}
        /\ [aggregatedResult EXCEPT !.summary = "Executive summary."]
              = [files |-> reviewResults,
                 summary |-> "Executive summary.",
                 score |-> aggregatedResult.score]
        /\ IsRounded(aggregatedResult.score, TotalScore(reviewResults, 1),
                     Len(reviewResults))

\* a run of two reviewed files has resolved after its summary call failed
C30_Witness ==
  /\ pc = "done"
  /\ summaryCalls = 1
  /\ Len(reviewResults) = 2
  /\ aggregatedResult.summary = "Could not generate an overall summary."
  /\ aggregatedResult.score > 0

====
